---- MODULE Spec2Model ----
(***************************************************************************)
(* State-machine model of the sync orchestration engine of sync.py:        *)
(* main()'s playlist loop, sync_playlist()'s track loop, download_track()  *)
(* with the ThrottleState escalation, and the filename codec used for the  *)
(* dedup lookup.  Strings are sequences of one-character strings.          *)
(***************************************************************************)
EXTENDS Integers, Sequences, FiniteSets, TLC

\* ------------------------------------------------------------------------
\* Program constants (sync.py, "Rate-limiting tunables")
\* ------------------------------------------------------------------------
SONG_DELAY_MIN == 3
SONG_DELAY_MAX == 8
PLAYLIST_DELAY == 10
CONSECUTIVE_FAIL_PAUSE == 60
CONSECUTIVE_FAIL_THRESHOLD == 3
CONSECUTIVE_FAIL_ABORT == 10
THROTTLE_WAIT_1 == 60
THROTTLE_WAIT_2 == 300

\* ------------------------------------------------------------------------
\* Bounds of the model
\* ------------------------------------------------------------------------
\* tracks of the long playlist beyond CONSECUTIVE_FAIL_ABORT
ExtraTracks == 1
\* largest configured --max-downloads value
MaxCeiling == 2

\* Python None for the optional --max-downloads; a configured value m is <<m>>
None == <<>>

\* ------------------------------------------------------------------------
\* Filename codec
\* ------------------------------------------------------------------------
UpperOf ==
  [c \in {"a", "b", "x", "y", "m", "p"} |->
     CASE c = "a" -> "A" [] c = "b" -> "B" [] c = "x" -> "X"
       [] c = "y" -> "Y" [] c = "m" -> "M" [] c = "p" -> "P"]

\* str.lower() on one character
LowerChar(c) ==
  IF \E l \in DOMAIN UpperOf : UpperOf[l] = c
    THEN CHOOSE l \in DOMAIN UpperOf : UpperOf[l] = c
    ELSE c

\* str.lower()
Lower(s) == [k \in 1..Len(s) |-> LowerChar(s[k])]

IsSpace(c) == c = " "

RECURSIVE LStrip(_)
LStrip(s) == IF s # <<>> /\ IsSpace(Head(s)) THEN LStrip(Tail(s)) ELSE s

RECURSIVE RStrip(_)
RStrip(s) ==
  IF s # <<>> /\ IsSpace(s[Len(s)]) THEN RStrip(SubSeq(s, 1, Len(s) - 1)) ELSE s

\* str.strip()
Strip(s) == RStrip(LStrip(s))

UnsafeChars == {"\"", ":", "'", "*", "/", "?", "\\", "<", ">", "|"}

IsSafeChar(c) == c \notin UnsafeChars

\* re.sub(r'[\":\'\*\/\?\\\<\>\|]', "", name).strip()
sanitize_filename(name) == Strip(SelectSeq(name, IsSafeChar))

IsLowerAlnum(c) == c \in {"a", "b", "x", "y", "m", "p", "0", "1", "2", "3", "4", "9"}

\* normalize_for_comparison without the .lower()
normalize_for_comparison_NoLower(name) == SelectSeq(name, IsLowerAlnum)

\* re.sub(r"[^a-z0-9]", "", name.lower())
normalize_for_comparison(name) == SelectSeq(Lower(name), IsLowerAlnum)

RECURSIVE JoinArtists(_)
\* ", ".join(artists)
JoinArtists(artists) ==
  IF artists = <<>> THEN <<>>
  ELSE IF Len(artists) = 1 THEN artists[1]
  ELSE artists[1] \o <<",", " ">> \o JoinArtists(Tail(artists))

Mp3Ext == <<".", "m", "p", "3">>

build_track_filename(track_name, artists) ==
  sanitize_filename(JoinArtists(artists) \o <<" ", "-", " ">> \o track_name) \o Mp3Ext

\* index of the last "." of a name, 0 when there is none
LastDot(f) ==
  IF \E k \in 1..Len(f) : f[k] = "."
    THEN CHOOSE k \in 1..Len(f) : f[k] = "." /\ \A j \in (k + 1)..Len(f) : f[j] # "."
    ELSE 0

\* pathlib: a name has a suffix when its last dot is neither leading nor trailing
HasSuffix(f) == LastDot(f) > 1 /\ LastDot(f) < Len(f)

\* Path(name).suffix
Suffix(f) == IF HasSuffix(f) THEN SubSeq(f, LastDot(f), Len(f)) ELSE <<>>

\* Path(name).stem
Stem(f) == IF HasSuffix(f) THEN SubSeq(f, 1, LastDot(f) - 1) ELSE f

\* existing_files_normalized that normalizes f.name instead of f.stem
existing_files_normalized_FullName(exists, names) ==
  IF exists
    THEN {normalize_for_comparison(f) : f \in {g \in names : Lower(Suffix(g)) = Mp3Ext}}
    ELSE {}

\* The keys of the dict existing_files_normalized(folder) returns; the folder
\* is given by whether it exists and the names of the files in it.
existing_files_normalized(exists, names) ==
  IF exists
    THEN {normalize_for_comparison(Stem(f)) : f \in {g \in names : Lower(Suffix(g)) = Mp3Ext}}
    ELSE {}

\* normalize_for_comparison(Path(build_track_filename(...)).stem)
NormalizedKey(track) ==
  normalize_for_comparison(Stem(build_track_filename(track.name, track.artists)))

\* ------------------------------------------------------------------------
\* Inputs: tracks, playlists, error texts
\* ------------------------------------------------------------------------
TrackAX == [name |-> <<"X">>, artists |-> << <<"A">> >>, spotify_url |-> "sp:1"]
\* same artist and title as TrackAX up to letter case
TrackAXLower == [name |-> <<"x">>, artists |-> << <<"a">> >>, spotify_url |-> "sp:2"]
TrackABY == [name |-> <<"Y", "?">>, artists |-> << <<"A">>, <<"B">> >>, spotify_url |-> "sp:3"]

LongLen == CONSECUTIVE_FAIL_ABORT + ExtraTracks

\* What the catalog returns for each playlist URL (get_playlist_tracks)
Catalog ==
  [u \in {"url:empty", "url:one", "url:short", "url:mixed", "url:long"} |->
     CASE u = "url:empty" -> <<>>
       [] u = "url:one" -> <<TrackABY>>
       [] u = "url:short" -> <<TrackAX, TrackABY>>
       [] u = "url:mixed" -> <<TrackABY, TrackAXLower, TrackAX>>
       [] u = "url:long"  -> [k \in 1..LongLen |-> IF k = 2 THEN TrackABY ELSE TrackAX]]

\* The playlists.json mappings of the model: the URLs in insertion order; the
\* playlist at position k has the destination folder k
Sessions ==
  { <<"url:mixed">>,
    <<"url:short", "url:mixed">>,
    <<"url:empty", "url:short">>,
    <<"url:long", "url:one">> }

Folders == 1..2

\* A failure file left by an earlier run
StaleFailures == <<[name |-> TrackABY.name, artists |-> TrackABY.artists, spotify_url |-> "sp:old"]>>

NoFile == [present |-> FALSE, records |-> <<>>]

\* What a destination folder may hold before the run: the names of its files
\* and its .failed_tracks.json
Libraries ==
  { [files |-> {}, failed |-> NoFile],
    [files |-> {<<"a", ",", " ", "b", " ", "-", " ", "y", ".", "M", "P", "3">>},
     failed |-> [present |-> TRUE, records |-> StaleFailures]],
    [files |-> {build_track_filename(TrackAX.name, TrackAX.artists),
                build_track_filename(TrackABY.name, TrackABY.artists),
                <<"x", ".", "m", "p", "4">>},
     failed |-> NoFile] }

\* Error texts of yt_dlp.utils.DownloadError, as sequences of phrases
AgePhrase == "Sign in to confirm your age"
ErrorTexts ==
  { <<"ERROR:", "Video unavailable">>,
    <<"ERROR:", AgePhrase>>,
    <<"ERROR:", AgePhrase, "HTTP Error 429">>,
    <<"ERROR:", "HTTP Error 429">>,
    <<"ERROR:", "Too Many Requests">> }

\* str.lower() on one phrase
LowerPhrase(p) ==
  CASE p = "ERROR:" -> "error:"
    [] p = "Video unavailable" -> "video unavailable"
    [] p = AgePhrase -> "sign in to confirm your age"
    [] p = "HTTP Error 429" -> "http error 429"
    [] p = "Too Many Requests" -> "too many requests"
    [] OTHER -> p

\* ind is a substring of phrase p
PhraseHas(p, ind) == p = ind \/ (p = "http error 429" /\ ind = "429")

\* `ind in msg`
Contains(msg, ind) == \E k \in 1..Len(msg) : PhraseHas(msg[k], ind)

\* error_msg.lower()
LowerMsg(msg) == [k \in 1..Len(msg) |-> LowerPhrase(msg[k])]

NoMsg == <<>>

\* What one call of ydl.extract_info(query, download=True) can do
BackendResults ==
  {[kind |-> "ok", msg |-> NoMsg], [kind |-> "Exception", msg |-> NoMsg]}
    \cup {[kind |-> "DownloadError", msg |-> m] : m \in ErrorTexts}

NoCall == [kind |-> "none", msg |-> NoMsg]

\* ------------------------------------------------------------------------
\* Throttle classification and the Fetcher
\* ------------------------------------------------------------------------
\* is_age_restricted without the .lower(): the phrase is matched case-sensitively
is_age_restricted_CaseSensitive(error_msg) == Contains(error_msg, "sign in to confirm your age")

is_age_restricted(error_msg) == Contains(LowerMsg(error_msg), "sign in to confirm your age")

is_throttle_error(error_msg) ==
  IF is_age_restricted(error_msg) THEN FALSE
  ELSE \E ind \in {"429", "too many requests", "http error 429"} :
         Contains(LowerMsg(error_msg), ind)

ThrottleState == [count_429 |-> 0, session_aborted |-> FALSE]

Sleep(kind, secs) == [kind |-> kind, secs |-> secs]

\* OnDownloadError that aborts the session on the fourth signal only
OnDownloadError_AbortOnFourth(th, error_msg) ==
  IF is_age_restricted(error_msg)
    THEN [throttle |-> th, sleeps |-> <<>>]
  ELSE IF is_throttle_error(error_msg)
    THEN LET c == th.count_429 + 1 IN
         IF c = 1
           THEN [throttle |-> [th EXCEPT !.count_429 = c],
                 sleeps |-> <<Sleep("throttle", THROTTLE_WAIT_1)>>]
         ELSE IF c <= 3
           THEN [throttle |-> [th EXCEPT !.count_429 = c],
                 sleeps |-> <<Sleep("throttle", THROTTLE_WAIT_2)>>]
         ELSE [throttle |-> [th EXCEPT !.count_429 = c, !.session_aborted = TRUE],
               sleeps |-> <<>>]
  ELSE [throttle |-> th, sleeps |-> <<>>]

\* OnDownloadError with the escalation off by one: the second signal aborts
OnDownloadError_AbortOnSecond(th, error_msg) ==
  IF is_age_restricted(error_msg)
    THEN [throttle |-> th, sleeps |-> <<>>]
  ELSE IF is_throttle_error(error_msg)
    THEN LET c == th.count_429 + 1 IN
         IF c = 1
           THEN [throttle |-> [th EXCEPT !.count_429 = c],
                 sleeps |-> <<Sleep("throttle", THROTTLE_WAIT_1)>>]
         ELSE [throttle |-> [th EXCEPT !.count_429 = c, !.session_aborted = TRUE],
               sleeps |-> <<>>]
  ELSE [throttle |-> th, sleeps |-> <<>>]

\* OnDownloadError that still waits THROTTLE_WAIT_2 on the aborting signal
OnDownloadError_WaitOnThird(th, error_msg) ==
  IF is_age_restricted(error_msg)
    THEN [throttle |-> th, sleeps |-> <<>>]
  ELSE IF is_throttle_error(error_msg)
    THEN LET c == th.count_429 + 1 IN
         IF c = 1
           THEN [throttle |-> [th EXCEPT !.count_429 = c],
                 sleeps |-> <<Sleep("throttle", THROTTLE_WAIT_1)>>]
         ELSE [throttle |-> [th EXCEPT !.count_429 = c, !.session_aborted = (c > 2)],
               sleeps |-> <<Sleep("throttle", THROTTLE_WAIT_2)>>]
  ELSE [throttle |-> th, sleeps |-> <<>>]

\* The except-branch of download_track for a DownloadError with text error_msg
OnDownloadError(th, error_msg) ==
  IF is_age_restricted(error_msg)
    THEN [throttle |-> th, sleeps |-> <<>>]
  ELSE IF is_throttle_error(error_msg)
    THEN LET c == th.count_429 + 1 IN
         IF c = 1
           THEN [throttle |-> [th EXCEPT !.count_429 = c],
                 sleeps |-> <<Sleep("throttle", THROTTLE_WAIT_1)>>]
         ELSE IF c = 2
           THEN [throttle |-> [th EXCEPT !.count_429 = c],
                 sleeps |-> <<Sleep("throttle", THROTTLE_WAIT_2)>>]
         ELSE [throttle |-> [th EXCEPT !.count_429 = c, !.session_aborted = TRUE],
               sleeps |-> <<>>]
  ELSE [throttle |-> th, sleeps |-> <<>>]

\* download_track without the fail-fast check of session_aborted
download_track_NoFailFast(track, th, dry, backend) ==
  IF dry
    THEN [success |-> TRUE, throttle |-> th, called |-> FALSE, sleeps |-> <<>>, wrote |-> {}]
  ELSE IF backend.kind = "ok"
    THEN [success |-> TRUE, throttle |-> th, called |-> TRUE, sleeps |-> <<>>,
          wrote |-> {build_track_filename(track.name, track.artists)}]
  ELSE IF backend.kind = "DownloadError"
    THEN LET r == OnDownloadError(th, backend.msg) IN
         [success |-> FALSE, throttle |-> r.throttle, called |-> TRUE,
          sleeps |-> r.sleeps, wrote |-> {}]
  ELSE [success |-> FALSE, throttle |-> th, called |-> TRUE, sleeps |-> <<>>, wrote |-> {}]

\* download_track without the dry-run return
download_track_IgnoresDryRun(track, th, dry, backend) ==
  IF th.session_aborted
    THEN [success |-> FALSE, throttle |-> th, called |-> FALSE, sleeps |-> <<>>, wrote |-> {}]
  ELSE IF backend.kind = "ok"
    THEN [success |-> TRUE, throttle |-> th, called |-> TRUE, sleeps |-> <<>>,
          wrote |-> {build_track_filename(track.name, track.artists)}]
  ELSE IF backend.kind = "DownloadError"
    THEN LET r == OnDownloadError(th, backend.msg) IN
         [success |-> FALSE, throttle |-> r.throttle, called |-> TRUE,
          sleeps |-> r.sleeps, wrote |-> {}]
  ELSE [success |-> FALSE, throttle |-> th, called |-> TRUE, sleeps |-> <<>>, wrote |-> {}]

\* download_track(track, ..., throttle, dry_run): `backend` is what extract_info
\* does if it is called.  Returns the bool result, the throttle state after
\* the call, whether the backend was called, the sleeps slept and the file
\* written.
download_track(track, th, dry, backend) ==
  IF th.session_aborted
    THEN [success |-> FALSE, throttle |-> th, called |-> FALSE, sleeps |-> <<>>, wrote |-> {}]
  ELSE IF dry
    THEN [success |-> TRUE, throttle |-> th, called |-> FALSE, sleeps |-> <<>>, wrote |-> {}]
  ELSE IF backend.kind = "ok"
    THEN [success |-> TRUE, throttle |-> th, called |-> TRUE, sleeps |-> <<>>,
          wrote |-> {build_track_filename(track.name, track.artists)}]
  ELSE IF backend.kind = "DownloadError"
    THEN LET r == OnDownloadError(th, backend.msg) IN
         [success |-> FALSE, throttle |-> r.throttle, called |-> TRUE,
          sleeps |-> r.sleeps, wrote |-> {}]
  ELSE [success |-> FALSE, throttle |-> th, called |-> TRUE, sleeps |-> <<>>, wrote |-> {}]

\* ------------------------------------------------------------------------
\* State
\* ------------------------------------------------------------------------
VARIABLES
  dry_run,              \* args.dry_run
  max_downloads,        \* args.max_downloads: None or <<m>>
  to_sync,              \* the mapping: the URLs in insertion order
  dirs,                 \* folders that exist on disk
  files,                \* folder -> names of the files in it
  failed_file,          \* folder -> its .failed_tracks.json
  throttle,             \* the session's ThrottleState
  download_count,       \* download_count[0]
  total_stats,          \* main's running total
  pi,                   \* position of main's loop in to_sync (1-based)
  pc,                   \* "main", "loop", "post" or "done"
  stats,                \* sync_playlist's stats dict
  tracks,               \* sync_playlist's remote track list
  existing,             \* keys of sync_playlist's local snapshot
  consecutive_failures,
  failed_tracks,
  ti,                   \* position i of the track loop (1-based)
  stop,                 \* why the track loop was left
  backendCalls,         \* number of extract_info calls so far
  catalogFetches,       \* number of get_playlist_tracks calls so far
  step,                 \* the last step: its outcome, the backend result, the sleeps
  history,              \* the stats returned by each sync_playlist call
  run,                  \* 1 for the first invocation of the program, 2 for a re-run
  succeeded,            \* <<folder, track>> of the real downloads of the first run
  codec_in,             \* a pair of tracks handed to the filename codec
  codec_out             \* what the codec returned for them

vars ==
  <<dry_run, max_downloads, to_sync, dirs, files, failed_file, throttle,
    download_count, total_stats, pi, pc, stats, tracks, existing,
    consecutive_failures, failed_tracks, ti, stop, backendCalls,
    catalogFetches, step, history, run, succeeded, codec_in, codec_out>>

config == <<dry_run, max_downloads, to_sync>>
codec == <<codec_in, codec_out>>
locals == <<stats, tracks, existing, consecutive_failures, failed_tracks, ti, stop>>

ZeroStats == [skipped |-> 0, downloaded |-> 0, failed |-> 0, total |-> 0]

Step(op, i, res, backend, sleeps) ==
  [op |-> op, i |-> i, res |-> res, backend |-> backend, sleeps |-> sleeps]

Init ==
  /\ dry_run \in BOOLEAN
  /\ max_downloads \in {None} \cup {<<m>> : m \in 0..MaxCeiling}
  /\ to_sync \in Sessions
  /\ \E lib \in [Folders -> Libraries] :
       /\ files = [f \in Folders |-> lib[f].files]
       /\ failed_file = [f \in Folders |-> lib[f].failed]
       /\ dirs = {f \in Folders : lib[f].files # {}}
  /\ throttle = ThrottleState
  /\ download_count = 0
  /\ total_stats = ZeroStats
  /\ pi = 1
  /\ pc = "main"
  /\ stats = ZeroStats
  /\ tracks = <<>>
  /\ existing = {}
  /\ consecutive_failures = 0
  /\ failed_tracks = <<>>
  /\ ti = 1
  /\ stop = "none"
  /\ backendCalls = 0
  /\ catalogFetches = 0
  /\ step = Step("init", 0, "none", NoCall, <<>>)
  /\ history = <<>>
  /\ run = 1
  /\ succeeded = {}
  /\ codec_in = <<>>
  /\ codec_out = <<>>

\* ------------------------------------------------------------------------
\* sync_playlist
\* ------------------------------------------------------------------------
\* SyncBegin in a main loop that does not check session_aborted
SyncBegin_NoAbortCheck(fetch_ok) ==
  /\ pc = "main"
  /\ pi <= Len(to_sync)
  /\ LET folder == pi
         fetched == Catalog[to_sync[pi]]
     IN
     /\ dirs' = dirs \cup {folder}
     /\ catalogFetches' = catalogFetches + 1
     /\ consecutive_failures' = 0
     /\ failed_tracks' = <<>>
     /\ ti' = 1
     /\ IF ~fetch_ok
          THEN /\ stats' = ZeroStats
               /\ tracks' = <<>>
               /\ existing' = {}
               /\ stop' = "fetch_failed"
               /\ pc' = "post"
               /\ step' = Step("begin", 0, "fetch_failed", NoCall, <<>>)
          ELSE /\ stats' = [ZeroStats EXCEPT !.total = Len(fetched)]
               /\ tracks' = fetched
               /\ existing' = existing_files_normalized(TRUE, files[folder])
               /\ stop' = IF fetched = <<>> THEN "exhausted" ELSE "none"
               /\ pc' = IF fetched = <<>> THEN "post" ELSE "loop"
               /\ step' = Step("begin", 0, "fetched", NoCall, <<>>)
  /\ UNCHANGED <<config, codec, run, succeeded, files, failed_file, throttle, download_count, total_stats,
                 pi, backendCalls, history>>

\* SyncBegin that carries the consecutive-failure counter over from the
\* previous playlist
SyncBegin_KeepsStreak(fetch_ok) ==
  /\ pc = "main"
  /\ pi <= Len(to_sync)
  /\ ~throttle.session_aborted
  /\ LET folder == pi
         fetched == Catalog[to_sync[pi]]
     IN
     /\ dirs' = dirs \cup {folder}
     /\ catalogFetches' = catalogFetches + 1
     /\ consecutive_failures' = consecutive_failures
     /\ failed_tracks' = <<>>
     /\ ti' = 1
     /\ IF ~fetch_ok
          THEN /\ stats' = ZeroStats
               /\ tracks' = <<>>
               /\ existing' = {}
               /\ stop' = "fetch_failed"
               /\ pc' = "post"
               /\ step' = Step("begin", 0, "fetch_failed", NoCall, <<>>)
          ELSE /\ stats' = [ZeroStats EXCEPT !.total = Len(fetched)]
               /\ tracks' = fetched
               /\ existing' = existing_files_normalized(TRUE, files[folder])
               /\ stop' = IF fetched = <<>> THEN "exhausted" ELSE "none"
               /\ pc' = IF fetched = <<>> THEN "post" ELSE "loop"
               /\ step' = Step("begin", 0, "fetched", NoCall, <<>>)
  /\ UNCHANGED <<config, codec, run, succeeded, files, failed_file, throttle, download_count, total_stats,
                 pi, backendCalls, history>>

\* main calls sync_playlist for the playlist at pi: folder creation, catalog
\* fetch (fetch_ok: whether get_playlist_tracks returns), local snapshot.
SyncBegin(fetch_ok) ==
  /\ pc = "main"
  /\ pi <= Len(to_sync)
  /\ ~throttle.session_aborted
  /\ LET folder == pi
         fetched == Catalog[to_sync[pi]]
     IN
     /\ dirs' = dirs \cup {folder}
     /\ catalogFetches' = catalogFetches + 1
     /\ consecutive_failures' = 0
     /\ failed_tracks' = <<>>
     /\ ti' = 1
     /\ IF ~fetch_ok
          THEN /\ stats' = ZeroStats
               /\ tracks' = <<>>
               /\ existing' = {}
               /\ stop' = "fetch_failed"
               /\ pc' = "post"
               /\ step' = Step("begin", 0, "fetch_failed", NoCall, <<>>)
          ELSE /\ stats' = [ZeroStats EXCEPT !.total = Len(fetched)]
               /\ tracks' = fetched
               /\ existing' = existing_files_normalized(TRUE, files[folder])
               /\ stop' = IF fetched = <<>> THEN "exhausted" ELSE "none"
               /\ pc' = IF fetched = <<>> THEN "post" ELSE "loop"
               /\ step' = Step("begin", 0, "fetched", NoCall, <<>>)
  /\ UNCHANGED <<config, codec, run, succeeded, files, failed_file, throttle, download_count, total_stats,
                 pi, backendCalls, history>>

\* CeilingReached with > for >=
CeilingReached_Strict(maxd, count) == maxd # None /\ count > maxd[1]

\* `max_downloads is not None and download_count and download_count[0] >= max_downloads`
\* (download_count is the non-empty list main passes, hence truthy)
CeilingReached(maxd, count) == maxd # None /\ count >= maxd[1]

\* IterCase that looks the un-normalized stem up in the snapshot
IterCase_RawName(th, maxd, count, track, snapshot) ==
  IF th.session_aborted THEN "break_aborted"
  ELSE IF CeilingReached(maxd, count) THEN "break_ceiling"
  ELSE IF Stem(build_track_filename(track.name, track.artists)) \in snapshot THEN "skip"
  ELSE "attempt"

\* The head of one loop iteration, in the order of the code: which of the
\* break / continue / attempt paths the iteration takes
IterCase(th, maxd, count, track, snapshot) ==
  IF th.session_aborted THEN "break_aborted"
  ELSE IF CeilingReached(maxd, count) THEN "break_ceiling"
  ELSE IF NormalizedKey(track) \in snapshot THEN "skip"
  ELSE "attempt"

CurrentCase == IterCase(throttle, max_downloads, download_count, tracks[ti], existing)

\* AfterFailure with > for >= in the abort test
AfterFailure_StrictAbort(cf) ==
  IF cf > CONSECUTIVE_FAIL_ABORT THEN "break"
  ELSE IF cf >= CONSECUTIVE_FAIL_THRESHOLD THEN "pause"
  ELSE "go"

\* AfterFailure with > for >= in the pause test
AfterFailure_StrictPause(cf) ==
  IF cf >= CONSECUTIVE_FAIL_ABORT THEN "break"
  ELSE IF cf > CONSECUTIVE_FAIL_THRESHOLD THEN "pause"
  ELSE "go"

\* AfterFailure with == for >= in the pause test
AfterFailure_PauseOnThresholdOnly(cf) ==
  IF cf >= CONSECUTIVE_FAIL_ABORT THEN "break"
  ELSE IF cf = CONSECUTIVE_FAIL_THRESHOLD THEN "pause"
  ELSE "go"

\* What follows a failure that brought the streak to cf: "break", "pause" or "go"
AfterFailure(cf) ==
  IF cf >= CONSECUTIVE_FAIL_ABORT THEN "break"
  ELSE IF cf >= CONSECUTIVE_FAIL_THRESHOLD THEN "pause"
  ELSE "go"

FailedRecord(track) ==
  [name |-> track.name, artists |-> track.artists, spotify_url |-> track.spotify_url]

\* pc and stop after an iteration at position i that did not break
Advance(i) ==
  /\ ti' = i + 1
  /\ pc' = IF i < Len(tracks) THEN "loop" ELSE "post"
  /\ stop' = IF i < Len(tracks) THEN "none" ELSE "exhausted"

\* An iteration that leaves the loop at its head: session abort or ceiling
LoopBreak ==
  /\ pc = "loop"
  /\ ti <= Len(tracks)
  /\ CurrentCase \in {"break_aborted", "break_ceiling"}
  /\ pc' = "post"
  /\ stop' = IF CurrentCase = "break_aborted" THEN "aborted" ELSE "ceiling"
  /\ step' = Step("track", ti, CurrentCase, NoCall, <<>>)
  /\ UNCHANGED <<config, codec, run, succeeded, dirs, files, failed_file, throttle, download_count,
                 total_stats, pi, stats, tracks, existing, consecutive_failures,
                 failed_tracks, ti, backendCalls, catalogFetches, history>>

\* TrackSkip that continues without counting the track
TrackSkip_NoCount ==
  /\ pc = "loop"
  /\ ti <= Len(tracks)
  /\ CurrentCase = "skip"
  /\ Advance(ti)
  /\ step' = Step("track", ti, "skipped", NoCall, <<>>)
  /\ UNCHANGED <<config, codec, run, succeeded, dirs, files, failed_file, throttle, download_count,
                 total_stats, pi, stats, tracks, existing, consecutive_failures,
                 failed_tracks, backendCalls, catalogFetches, history>>

\* TrackSkip that counts the present track as downloaded
TrackSkip_CountsDownloaded ==
  /\ pc = "loop"
  /\ ti <= Len(tracks)
  /\ CurrentCase = "skip"
  /\ stats' = [stats EXCEPT !.downloaded = @ + 1]
  /\ Advance(ti)
  /\ step' = Step("track", ti, "skipped", NoCall, <<>>)
  /\ UNCHANGED <<config, codec, run, succeeded, dirs, files, failed_file, throttle,
                 download_count, total_stats, pi, tracks, existing,
                 consecutive_failures, failed_tracks, backendCalls, catalogFetches,
                 history>>

\* TrackSkip that resets the consecutive-failure counter like a success
TrackSkip_ResetsStreak ==
  /\ pc = "loop"
  /\ ti <= Len(tracks)
  /\ CurrentCase = "skip"
  /\ stats' = [stats EXCEPT !.skipped = @ + 1]
  /\ consecutive_failures' = 0
  /\ Advance(ti)
  /\ step' = Step("track", ti, "skipped", NoCall, <<>>)
  /\ UNCHANGED <<config, codec, run, succeeded, dirs, files, failed_file, throttle,
                 download_count, total_stats, pi, tracks, existing,
                 failed_tracks, backendCalls, catalogFetches, history>>

\* An iteration whose track is found in the local snapshot
TrackSkip ==
  /\ pc = "loop"
  /\ ti <= Len(tracks)
  /\ CurrentCase = "skip"
  /\ stats' = [stats EXCEPT !.skipped = @ + 1]
  /\ Advance(ti)
  /\ step' = Step("track", ti, "skipped", NoCall, <<>>)
  /\ UNCHANGED <<config, codec, run, succeeded, dirs, files, failed_file, throttle, download_count,
                 total_stats, pi, tracks, existing, consecutive_failures,
                 failed_tracks, backendCalls, catalogFetches, history>>

\* TrackAttempt with two departures from the code: `retry` keeps the loop on
\* the same position after a failure below the breaker, `pace_last` sleeps
\* the pacing delay after the last track too
TrackAttemptWith(backend, retry, pace_last) ==
  /\ pc = "loop"
  /\ ti <= Len(tracks)
  /\ CurrentCase = "attempt"
  /\ LET track == tracks[ti]
         folder == pi
         r == download_track(track, throttle, dry_run, backend)
         called == IF r.called THEN backend ELSE NoCall
     IN
     /\ throttle' = r.throttle
     /\ backendCalls' = backendCalls + (IF r.called THEN 1 ELSE 0)
     /\ files' = [files EXCEPT ![folder] = @ \cup r.wrote]
     /\ succeeded' = IF run = 1 /\ r.success /\ r.called
                       THEN succeeded \cup {<<folder, track>>} ELSE succeeded
     /\ IF r.success
          THEN /\ stats' = [stats EXCEPT !.downloaded = @ + 1]
               /\ consecutive_failures' = 0
               /\ download_count' = download_count + 1
               /\ failed_tracks' = failed_tracks
               /\ Advance(ti)
               /\ IF ~dry_run /\ (pace_last \/ ti < Len(tracks))
                    THEN \E delay \in SONG_DELAY_MIN..SONG_DELAY_MAX :
                           step' = Step("track", ti, "success", called,
                                        r.sleeps \o <<Sleep("pacing", delay)>>)
                    ELSE step' = Step("track", ti, "success", called, r.sleeps)
          ELSE LET cf == consecutive_failures + 1
                   pause == IF AfterFailure(cf) = "pause"
                              THEN <<Sleep("cooldown", CONSECUTIVE_FAIL_PAUSE)>> ELSE <<>>
               IN
               /\ stats' = [stats EXCEPT !.failed = @ + 1]
               /\ consecutive_failures' = cf
               /\ download_count' = download_count
               /\ failed_tracks' = Append(failed_tracks, FailedRecord(track))
               /\ IF AfterFailure(cf) = "break"
                    THEN ti' = ti /\ pc' = "post" /\ stop' = "breaker"
                    ELSE IF retry
                      THEN ti' = ti /\ pc' = "loop" /\ stop' = "none"
                      ELSE Advance(ti)
               /\ step' = Step("track", ti, "failed", called, r.sleeps \o pause)
  /\ UNCHANGED <<config, codec, run, dirs, failed_file, total_stats, pi, tracks,
                 existing, catalogFetches, history>>

\* TrackAttempt that tries a failed track again
TrackAttempt_RetriesFailure(backend) == TrackAttemptWith(backend, TRUE, FALSE)

\* TrackAttempt that paces after the last track of the playlist too
TrackAttempt_PacesAfterLast(backend) == TrackAttemptWith(backend, FALSE, TRUE)

\* An iteration that calls download_track: backend is what extract_info does
\* if it is called; the pacing delay is what random.uniform draws.
TrackAttempt(backend) ==
  /\ pc = "loop"
  /\ ti <= Len(tracks)
  /\ CurrentCase = "attempt"
  /\ LET track == tracks[ti]
         folder == pi
         r == download_track(track, throttle, dry_run, backend)
         called == IF r.called THEN backend ELSE NoCall
     IN
     /\ throttle' = r.throttle
     /\ backendCalls' = backendCalls + (IF r.called THEN 1 ELSE 0)
     /\ files' = [files EXCEPT ![folder] = @ \cup r.wrote]
     /\ succeeded' = IF run = 1 /\ r.success /\ r.called
                       THEN succeeded \cup {<<folder, track>>} ELSE succeeded
     /\ IF r.success
          THEN /\ stats' = [stats EXCEPT !.downloaded = @ + 1]
               /\ consecutive_failures' = 0
               /\ download_count' = download_count + 1
               /\ failed_tracks' = failed_tracks
               /\ Advance(ti)
               /\ IF ~dry_run /\ ti < Len(tracks)
                    THEN \E delay \in SONG_DELAY_MIN..SONG_DELAY_MAX :
                           step' = Step("track", ti, "success", called,
                                        r.sleeps \o <<Sleep("pacing", delay)>>)
                    ELSE step' = Step("track", ti, "success", called, r.sleeps)
          ELSE LET cf == consecutive_failures + 1
                   pause == IF AfterFailure(cf) = "pause"
                              THEN <<Sleep("cooldown", CONSECUTIVE_FAIL_PAUSE)>> ELSE <<>>
               IN
               /\ stats' = [stats EXCEPT !.failed = @ + 1]
               /\ consecutive_failures' = cf
               /\ download_count' = download_count
               /\ failed_tracks' = Append(failed_tracks, FailedRecord(track))
               /\ IF AfterFailure(cf) = "break"
                    THEN ti' = ti /\ pc' = "post" /\ stop' = "breaker"
                    ELSE Advance(ti)
               /\ step' = Step("track", ti, "failed", called, r.sleeps \o pause)
  /\ UNCHANGED <<config, codec, run, dirs, failed_file, total_stats, pi, tracks,
                 existing, catalogFetches, history>>

\* SyncEnd that writes the failure file on every return, the early return
\* after a failed catalog fetch included
SyncEnd_AlwaysWrites(write_ok) ==
  /\ pc = "post"
  /\ LET folder == pi
         delay == IF ~dry_run /\ pi < Len(to_sync) /\ ~throttle.session_aborted
                    THEN <<Sleep("playlist", PLAYLIST_DELAY)>> ELSE <<>>
     IN
     /\ failed_file' =
          IF write_ok
            THEN [failed_file EXCEPT ![folder] = [present |-> TRUE, records |-> failed_tracks]]
            ELSE failed_file
     /\ total_stats' = [k \in DOMAIN total_stats |-> total_stats[k] + stats[k]]
     /\ history' = Append(history, stats)
     /\ step' = Step("end", 0, stop, NoCall, delay)
  /\ pi' = pi + 1
  /\ pc' = "main"
  /\ UNCHANGED <<config, codec, run, succeeded, dirs, files, throttle, download_count, locals,
                 backendCalls, catalogFetches>>

\* SyncEnd whose inter-playlist delay is also slept after the last playlist
SyncEnd_DelayAfterLast(write_ok) ==
  /\ pc = "post"
  /\ LET folder == pi
         delay == IF ~dry_run /\ pi <= Len(to_sync) /\ ~throttle.session_aborted
                    THEN <<Sleep("playlist", PLAYLIST_DELAY)>> ELSE <<>>
     IN
     /\ failed_file' =
          IF stop # "fetch_failed" /\ failed_tracks # <<>> /\ write_ok
            THEN [failed_file EXCEPT ![folder] = [present |-> TRUE, records |-> failed_tracks]]
            ELSE failed_file
     /\ total_stats' = [k \in DOMAIN total_stats |-> total_stats[k] + stats[k]]
     /\ history' = Append(history, stats)
     /\ step' = Step("end", 0, stop, NoCall, delay)
  /\ pi' = pi + 1
  /\ pc' = "main"
  /\ UNCHANGED <<config, codec, run, succeeded, dirs, files, throttle, download_count, locals,
                 backendCalls, catalogFetches>>

\* After the track loop: the failure file (write_ok: whether write_text
\* succeeds), the return to main, main's totals and inter-playlist delay.
SyncEnd(write_ok) ==
  /\ pc = "post"
  /\ LET folder == pi
         delay == IF ~dry_run /\ pi < Len(to_sync) /\ ~throttle.session_aborted
                    THEN <<Sleep("playlist", PLAYLIST_DELAY)>> ELSE <<>>
     IN
     /\ failed_file' =
          IF stop # "fetch_failed" /\ failed_tracks # <<>> /\ write_ok
            THEN [failed_file EXCEPT ![folder] = [present |-> TRUE, records |-> failed_tracks]]
            ELSE failed_file
     /\ total_stats' = [k \in DOMAIN total_stats |-> total_stats[k] + stats[k]]
     /\ history' = Append(history, stats)
     /\ step' = Step("end", 0, stop, NoCall, delay)
  /\ pi' = pi + 1
  /\ pc' = "main"
  /\ UNCHANGED <<config, codec, run, succeeded, dirs, files, throttle, download_count, locals,
                 backendCalls, catalogFetches>>

\* main's loop ends: the mapping is exhausted, or session_aborted breaks it
Finish ==
  /\ pc = "main"
  /\ pi > Len(to_sync) \/ throttle.session_aborted
  /\ pc' = "done"
  /\ step' = Step("finish", 0, IF pi > Len(to_sync) THEN "exhausted" ELSE "break_aborted",
                  NoCall, <<>>)
  /\ UNCHANGED <<config, codec, run, succeeded, dirs, files, failed_file, throttle, download_count,
                 total_stats, pi, locals, backendCalls, catalogFetches, history>>

Next ==
  \/ \E fetch_ok \in BOOLEAN : SyncBegin(fetch_ok)
  \/ LoopBreak
  \/ TrackSkip
  \/ \E backend \in BackendResults : TrackAttempt(backend)
  \/ \E write_ok \in BOOLEAN : SyncEnd(write_ok)
  \/ Finish

Spec == Init /\ [][Next]_vars

\* ------------------------------------------------------------------------
\* A second invocation of the program on the same mapping and folders
\* ------------------------------------------------------------------------
\* The mappings of the re-run specification
RerunSessions ==
  { <<"url:mixed">>,
    <<"url:short", "url:mixed">>,
    <<"url:empty", "url:short">> }

InitRerun == Init /\ to_sync \in RerunSessions

\* The process has ended and the program is started again with the same
\* arguments: main builds a fresh ThrottleState, download counter and totals;
\* the folders, their files and their failure files are what the first run left.
Rerun ==
  /\ pc = "done"
  /\ run = 1
  /\ run' = 2
  /\ throttle' = ThrottleState
  /\ download_count' = 0
  /\ total_stats' = ZeroStats
  /\ pi' = 1
  /\ pc' = "main"
  /\ stats' = ZeroStats
  /\ tracks' = <<>>
  /\ existing' = {}
  /\ consecutive_failures' = 0
  /\ failed_tracks' = <<>>
  /\ ti' = 1
  /\ stop' = "none"
  /\ backendCalls' = 0
  /\ catalogFetches' = 0
  /\ step' = Step("init", 0, "none", NoCall, <<>>)
  /\ history' = <<>>
  /\ UNCHANGED <<config, codec, succeeded, dirs, files, failed_file>>

NextRerun == Next \/ Rerun

SpecRerun == InitRerun /\ [][NextRerun]_vars

\* ------------------------------------------------------------------------
\* The filename codec applied to pairs of tracks
\* ------------------------------------------------------------------------
CodecNames == {<<"X">>, <<"x">>, <<"Y", "?">>, <<"y", "?">>, <<" ", "X", ":">>}

CodecArtists ==
  { << <<"A">> >>, << <<"a">> >>, << <<"A">>, <<"B">> >>, << <<"a">>, <<"b">> >>,
    << <<"A">>, <<"b">> >> }

CodecTracks ==
  {[name |-> n, artists |-> a, spotify_url |-> "sp:0"] : n \in CodecNames, a \in CodecArtists}

InitCodec ==
  /\ codec_in \in CodecTracks \X CodecTracks
  /\ codec_out = <<>>
  /\ dry_run = FALSE
  /\ max_downloads = None
  /\ to_sync = <<>>
  /\ dirs = {}
  /\ files = [f \in Folders |-> {}]
  /\ failed_file = [f \in Folders |-> NoFile]
  /\ throttle = ThrottleState
  /\ download_count = 0
  /\ total_stats = ZeroStats
  /\ pi = 1
  /\ pc = "done"
  /\ stats = ZeroStats
  /\ tracks = <<>>
  /\ existing = {}
  /\ consecutive_failures = 0
  /\ failed_tracks = <<>>
  /\ ti = 1
  /\ stop = "none"
  /\ backendCalls = 0
  /\ catalogFetches = 0
  /\ step = Step("init", 0, "none", NoCall, <<>>)
  /\ history = <<>>
  /\ run = 1
  /\ succeeded = {}

\* What the codec returns for one track: the CanonicalFilename and the
\* NormalizedKey sync_playlist looks up
CodecResult(track) ==
  [filename |-> build_track_filename(track.name, track.artists),
   key |-> NormalizedKey(track)]

\* build_track_filename and the key computation applied to both tracks
ApplyCodec ==
  /\ codec_in # <<>>
  /\ codec_out = <<>>
  /\ codec_out' = <<CodecResult(codec_in[1]), CodecResult(codec_in[2])>>
  /\ UNCHANGED <<config, codec_in, run, succeeded, dirs, files, failed_file, throttle,
                 download_count, total_stats, pi, pc, locals, backendCalls,
                 catalogFetches, step, history>>

NextCodec == ApplyCodec

SpecCodec == InitCodec /\ [][NextCodec]_vars

\* ------------------------------------------------------------------------
\* Properties
\* ------------------------------------------------------------------------
Counted(st) == st.downloaded + st.skipped + st.failed

ThrottleWaits(sleeps) == SelectSeq(sleeps, LAMBDA x : x.kind = "throttle")

AllTracks == {TrackAX, TrackAXLower, TrackABY}

\* download_track called in an aborted session fails without a backend call
FetcherFailsFast ==
  \A t \in AllTracks, d \in BOOLEAN, b \in BackendResults :
    LET th == [throttle EXCEPT !.session_aborted = TRUE]
        r == download_track(t, th, d, b)
    IN ~r.success /\ ~r.called /\ r.throttle = th /\ r.sleeps = <<>> /\ r.wrote = {}

\* C1: once session_aborted is true it stays true and no step of the rest of
\* the run calls the media backend; download_track called with
\* session_aborted true returns False without a backend call.
C1_AbortedIsTerminal ==
  [][/\ throttle.session_aborted =>
          (throttle'.session_aborted /\ backendCalls' = backendCalls)
     /\ FetcherFailsFast]_vars

\* C1 witness: the run ended aborted with a playlist of the mapping left over
C1_Witness ==
  pc = "done" /\ throttle.session_aborted /\ Len(history) < Len(to_sync)

\* A step that received the n-th rate-limit signal of the session
SignalStep(n) == throttle.count_429 = n - 1 /\ throttle'.count_429 = n

WaitFor(n) == IF n = 1 THEN THROTTLE_WAIT_1 ELSE THROTTLE_WAIT_2

\* What C2 and its amendment share: the count is session-wide and never goes
\* down; the n-th signal (n = 1, 2) sleeps exactly one throttle wait of
\* WaitFor(n), leaves session_aborted false and returns non-success.
C2_SignalEffect ==
  /\ throttle'.count_429 >= throttle.count_429
  /\ \A n \in {1, 2} :
       SignalStep(n) =>
         /\ ThrottleWaits(step'.sleeps) = <<Sleep("throttle", WaitFor(n))>>
         /\ ~throttle'.session_aborted
         /\ step'.res = "failed"

\* The loop goes on to the track after position ti
ContinuesWithNext ==
  /\ pc' = "loop"
  /\ ti' = ti + 1
  /\ IterCase(throttle', max_downloads', download_count', tracks'[ti'], existing')
       \in {"skip", "attempt"}

\* C2 as stated: after the 1st and the 2nd rate-limit signal processing
\* continues with the next track (whenever there is one).
C2_Original ==
  [][/\ C2_SignalEffect
     /\ \A n \in {1, 2} :
          (SignalStep(n) /\ ti < Len(tracks)) => ContinuesWithNext]_vars

\* C2 amended: rate-limit signals are counted session-wide; the 1st sleeps
\* exactly one THROTTLE_WAIT_1 and the 2nd exactly one THROTTLE_WAIT_2, both
\* leave session_aborted false and return non-success; processing continues
\* with the next track unless that failure is the playlist's
\* CONSECUTIVE_FAIL_ABORT-th consecutive failure, which stops the playlist.
C2_ThrottleEscalation ==
  [][/\ C2_SignalEffect
     /\ \A n \in {1, 2} :
          (SignalStep(n) /\ ti < Len(tracks)) =>
            IF consecutive_failures' < CONSECUTIVE_FAIL_ABORT
              THEN ContinuesWithNext
              ELSE pc' = "post" /\ stop' = "breaker"]_vars

\* C2 witness: the 2nd signal of the session arrives in the second playlist,
\* the 1st having arrived in the first one
C2_Witness ==
  /\ pi = 2 /\ pc = "loop" /\ stats.failed = 1
  /\ throttle.count_429 = 2 /\ ~throttle.session_aborted
  /\ step.sleeps = <<Sleep("throttle", THROTTLE_WAIT_2)>>

\* C3 as stated: from the attempt that receives the third signal on, no
\* sleep of any kind is performed.
C3_Original == throttle.session_aborted => step.sleeps = <<>>

\* C3 amended: the 3rd rate-limit signal sets session_aborted with no
\* throttle wait; from that attempt on no throttle wait, pacing delay or
\* inter-playlist delay is slept; the only sleep still performed is the
\* consecutive-failure cooldown of the aborting attempt itself, slept once
\* when that failure brings the streak into
\* [CONSECUTIVE_FAIL_THRESHOLD, CONSECUTIVE_FAIL_ABORT - 1].
C3_AbortWithoutThrottleWait ==
  [][/\ (~throttle.session_aborted /\ throttle'.session_aborted) =>
          /\ SignalStep(3)
          /\ step'.sleeps =
               IF consecutive_failures' \in
                    CONSECUTIVE_FAIL_THRESHOLD..(CONSECUTIVE_FAIL_ABORT - 1)
                 THEN <<Sleep("cooldown", CONSECUTIVE_FAIL_PAUSE)>>
                 ELSE <<>>
     /\ throttle.session_aborted => step'.sleeps = <<>>
     /\ throttle'.session_aborted <=> throttle'.count_429 >= 3]_vars

\* C3 witness: the aborting attempt slept the cooldown
C3_Witness ==
  /\ throttle.session_aborted /\ step.res = "failed"
  /\ step.sleeps = <<Sleep("cooldown", CONSECUTIVE_FAIL_PAUSE)>>

RECURSIVE SumStats(_)
SumStats(h) ==
  IF h = <<>> THEN ZeroStats
  ELSE LET r == SumStats(Tail(h)) IN [k \in DOMAIN ZeroStats |-> Head(h)[k] + r[k]]

\* C4: once session_aborted is true no playlist is passed to sync_playlist
\* (no catalog fetch, no folder creation), the tracks after the aborting
\* attempt are neither attempted nor counted, and the aggregate holds the
\* stats of the playlists up to the aborting one only.
C4_AbortStopsSession ==
  [][/\ (~throttle.session_aborted /\ throttle'.session_aborted) =>
          (Counted(stats') = ti /\ stats'.failed = stats.failed + 1)
     /\ throttle.session_aborted =>
          /\ catalogFetches' = catalogFetches /\ dirs' = dirs
          /\ backendCalls' = backendCalls /\ files' = files
          /\ stats' = stats /\ failed_tracks' = failed_tracks
     /\ (throttle'.session_aborted /\ pc' = "done") =>
          /\ Len(history') = catalogFetches'
          /\ total_stats' = SumStats(history')
          /\ history'[Len(history')] = stats']_vars

\* C4 witness: aborted inside the first playlist with tracks and a playlist
\* left over
C4_Witness ==
  /\ pc = "done" /\ throttle.session_aborted
  /\ Len(history) = 1 /\ Len(to_sync) = 2 /\ 2 \notin dirs
  /\ Counted(stats) < stats.total /\ total_stats = stats

\* The backend's error text holds the age-restriction phrase
HasAgePhrase(msg) == \E k \in 1..Len(msg) : msg[k] = AgePhrase

\* C5: an attempt whose backend error text holds the age-restriction phrase
\* leaves count_429 and session_aborted unchanged and sleeps no throttle
\* wait, also when the text holds a rate-limit indicator.
C5_AgeRestrictedNotThrottle ==
  [][(step'.backend.kind = "DownloadError" /\ HasAgePhrase(step'.backend.msg)) =>
       (throttle' = throttle /\ ThrottleWaits(step'.sleeps) = <<>>
        /\ step'.res = "failed")]_vars

\* C5 witness: an age-restricted error whose text also holds "429", received
\* when two rate-limit signals had already been counted
C5_Witness ==
  /\ step.backend = [kind |-> "DownloadError", msg |-> <<"ERROR:", AgePhrase, "HTTP Error 429">>]
  /\ throttle.count_429 = 2

\* The downloads counted so far in the session, over all playlists
SessionDownloaded ==
  SumStats(history).downloaded + (IF pc \in {"loop", "post"} THEN stats.downloaded ELSE 0)

\* C6: with max_downloads = M the downloads of the whole session never
\* exceed M, and once the shared counter has reached M no step attempts a
\* track, calls the backend or counts a track as failed (or otherwise).
C6_DownloadCeiling ==
  [][max_downloads # None =>
       /\ download_count = SessionDownloaded
       /\ SumStats(history').downloaded
            + (IF pc' \in {"loop", "post"} THEN stats'.downloaded ELSE 0) <= max_downloads[1]
       /\ download_count >= max_downloads[1] =>
            /\ backendCalls' = backendCalls /\ download_count' = download_count
            /\ files' = files
            /\ step'.res \notin {"success", "failed", "skipped"}
            /\ (stats' = stats /\ failed_tracks' = failed_tracks)
                 \/ (step'.op = "begin" /\ Counted(stats') = 0 /\ failed_tracks' = <<>>)]_vars

\* C6 witness: a session with max_downloads = 1 ended after one download,
\* two playlists processed, tracks left unattempted and none failed
C6_Witness ==
  /\ pc = "done" /\ max_downloads = <<1>> /\ ~dry_run
  /\ total_stats.downloaded = 1 /\ backendCalls = 1 /\ Len(history) = 2
  /\ total_stats.failed = 0 /\ Counted(total_stats) < total_stats.total
  /\ history[2].total > 0 /\ Counted(history[2]) = 0

\* The loop stands at a track whose NormalizedKey is in the local snapshot
AtSnapshotTrack ==
  pc = "loop" /\ ti <= Len(tracks) /\ NormalizedKey(tracks[ti]) \in existing

\* C7: the iteration for a track whose NormalizedKey is in the snapshot taken
\* at the start of sync_playlist makes no backend call and never counts the
\* track as downloaded or failed; unless the loop breaks at its head the
\* track is counted once in skipped and the loop moves past it; the snapshot
\* does not change during the loop.
C7_SnapshotTrackSkipped ==
  [][/\ AtSnapshotTrack =>
          /\ backendCalls' = backendCalls
          /\ stats'.downloaded = stats.downloaded /\ stats'.failed = stats.failed
          /\ files' = files /\ failed_tracks' = failed_tracks
          /\ \/ (step'.res = "skipped" /\ stats'.skipped = stats.skipped + 1 /\ ti' = ti + 1)
             \/ (step'.res \in {"break_aborted", "break_ceiling"}
                   /\ stats' = stats /\ pc' = "post")
     /\ pc = "loop" => (existing' = existing /\ tracks' = tracks /\ ti' >= ti)]_vars

\* C7 witness: a track was skipped in a playlist in which another track was
\* downloaded by the backend
C7_Witness ==
  /\ step.res = "skipped" /\ ~dry_run
  /\ stats.downloaded = 1 /\ stats.skipped = 1 /\ backendCalls = 1

\* sync_playlist fetched a non-empty playlist whose every track has its
\* NormalizedKey in the snapshot of the destination folder
AllTracksPresent ==
  /\ pc \in {"loop", "post"} /\ stop # "fetch_failed" /\ tracks # <<>>
  /\ \A k \in 1..Len(tracks) : NormalizedKey(tracks[k]) \in existing

\* C8 as stated: for any dry_run, max_downloads and download counter, a
\* playlist whose every track is in the folder returns skipped == total,
\* downloaded == 0, failed == 0.
C8_Original ==
  (AllTracksPresent /\ pc = "post") =>
    (stats.skipped = stats.total /\ stats.downloaded = 0 /\ stats.failed = 0)

\* The ceiling was already reached when sync_playlist was called
CeilingHit == max_downloads # None /\ download_count >= max_downloads[1]

\* C8 amended: for every sync_playlist call (any dry_run, session not
\* aborted) in which the download ceiling is not already reached
\* (max_downloads is None or the shared counter is below it), a playlist
\* whose every track has its NormalizedKey in the destination folder returns
\* skipped == total, downloaded == 0, failed == 0, with no backend call.
C8_AllPresentAllSkipped ==
  [][/\ (AllTracksPresent /\ ~CeilingHit) =>
          /\ backendCalls' = backendCalls /\ download_count' = download_count
          /\ pc = "loop" => (step'.res = "skipped" /\ stats'.skipped = stats.skipped + 1)
          /\ pc = "post" =>
               /\ stats.skipped = stats.total /\ stats.downloaded = 0 /\ stats.failed = 0
               /\ history' = Append(history, stats)
     /\ (AllTracksPresent /\ CeilingHit /\ pc = "post") => Counted(stats) = 0]_vars

\* C8 witness: such a playlist returned, all skipped, with a ceiling
\* configured and not reached
C8_Witness ==
  /\ AllTracksPresent /\ pc = "post" /\ max_downloads = <<1>> /\ ~dry_run
  /\ stats.skipped = stats.total /\ stats.total = 3

\* C9: when the first CONSECUTIVE_FAIL_ABORT attempted tracks of a playlist
\* all fail, the loop stops at the 10th failure: failed is exactly 10, the
\* tracks after it are not counted, and no backend call is made until the
\* next playlist begins; sync_playlist returns these stats.
C9_TenFailuresStopPlaylist ==
  [][/\ (stats'.downloaded = 0 /\ stats'.failed >= CONSECUTIVE_FAIL_ABORT) =>
          /\ stats'.failed = CONSECUTIVE_FAIL_ABORT
          /\ pc' # "loop" /\ stop' = "breaker"
          /\ Counted(stats') = ti'
     /\ stop = "breaker" =>
          /\ backendCalls' = backendCalls
          /\ \/ (stats' = stats /\ failed_tracks' = failed_tracks /\ ti' = ti)
             \/ step'.op = "begin"
          /\ pc = "post" => history' = Append(history, stats)]_vars

\* C9 witness: sync_playlist returned after ten failures, one skipped track
\* among them and a track left over
C9_Witness ==
  /\ pc = "main" /\ stop = "breaker" /\ ti < Len(tracks)
  /\ history[1].failed = CONSECUTIVE_FAIL_ABORT /\ history[1].downloaded = 0
  /\ Counted(history[1]) < history[1].total
  /\ backendCalls = CONSECUTIVE_FAIL_ABORT

CooldownSleeps(sleeps) == SelectSeq(sleeps, LAMBDA x : x.kind = "cooldown")

\* The step is the failure of track 3 after tracks 1 and 2 failed
ThirdFailureInARow ==
  /\ pc = "loop" /\ ti = 3 /\ stats.failed = 2 /\ Counted(stats) = 2
  /\ step'.res = "failed"

\* What C10 and its amendment share: the failures of tracks 1 and 2 sleep no
\* cooldown, the failure of track 3 sleeps exactly one cooldown of
\* CONSECUTIVE_FAIL_PAUSE; a success resets the streak to 0 and a failure
\* adds one to it.
C10_StreakEffect ==
  /\ (pc = "loop" /\ ti \in {1, 2} /\ Counted(stats) = stats.failed /\ step'.res = "failed") =>
       CooldownSleeps(step'.sleeps) = <<>>
  /\ ThirdFailureInARow =>
       CooldownSleeps(step'.sleeps) = <<Sleep("cooldown", CONSECUTIVE_FAIL_PAUSE)>>
  /\ step'.res = "success" => consecutive_failures' = 0
  /\ step'.res = "failed" => consecutive_failures' = consecutive_failures + 1

\* C10 as stated: after the cooldown processing continues with track 4.
C10_Original ==
  [][/\ C10_StreakEffect
     /\ (ThirdFailureInARow /\ Len(tracks) >= 4) => ContinuesWithNext]_vars

\* C10 amended: tracks 1-3 failing consecutively cause exactly one cooldown
\* of CONSECUTIVE_FAIL_PAUSE, after which processing continues with track 4
\* unless the third failure was the session's third rate-limit signal
\* (session_aborted), which stops the playlist before track 4; a later
\* success resets the streak to 0, so the next failure starts one at 1.
C10_CooldownAfterThree ==
  [][/\ C10_StreakEffect
     /\ (ThirdFailureInARow /\ Len(tracks) >= 4) =>
          IF throttle'.session_aborted
            THEN /\ pc' = "loop" /\ ti' = 4
                 /\ IterCase(throttle', max_downloads', download_count', tracks'[ti'],
                             existing') = "break_aborted"
            ELSE ContinuesWithNext]_vars

\* C10 witness: tracks 1-3 failed, track 4 succeeded and track 5 failed,
\* starting a new streak at 1
C10_Witness ==
  /\ pc = "loop" /\ ti = 6 /\ step.res = "failed"
  /\ stats.failed = 4 /\ stats.downloaded = 1 /\ stats.skipped = 0
  /\ consecutive_failures = 1 /\ step.sleeps = <<>>

DryRunNoCeiling == dry_run /\ max_downloads = None

\* C11: in dry-run mode with no ceiling, every track whose key is not in the
\* snapshot is counted downloaded and every other track skipped (failed = 0,
\* downloaded + skipped = total at the return), and no step of the session
\* calls the backend, writes a file, changes the ThrottleState or sleeps.
C11_DryRunIsInert ==
  [][DryRunNoCeiling =>
       /\ backendCalls' = 0
       /\ files' = files
       /\ throttle' = ThrottleState
       /\ step'.sleeps = <<>>
       /\ stats'.failed = 0
       /\ pc = "loop" =>
            /\ step'.op = "track"
            /\ IF NormalizedKey(tracks[ti]) \in existing
                 THEN /\ step'.res = "skipped"
                      /\ stats' = [stats EXCEPT !.skipped = @ + 1]
                 ELSE /\ step'.res = "success"
                      /\ stats' = [stats EXCEPT !.downloaded = @ + 1]
       /\ (pc' = "post" /\ stop' # "fetch_failed") =>
            stats'.downloaded + stats'.skipped = stats'.total]_vars

\* C11 witness: a dry-run session without ceiling ended; its second playlist
\* had tracks counted downloaded and a track skipped, with no backend call
C11_Witness ==
  /\ pc = "done" /\ DryRunNoCeiling
  /\ Len(history) = 2
  /\ history[2].downloaded >= 1 /\ history[2].skipped >= 1
  /\ history[2].downloaded + history[2].skipped = history[2].total
  /\ backendCalls = 0
  /\ step.sleeps = <<>>

\* C12: each run of sync_playlist fully overwrites the playlist's failure
\* file: after a run that fetched the catalog and whose write did not raise,
\* the file holds exactly the FailedTrackRecords of that run, in remote
\* order, and no record left over from an earlier run.
C12_FailureFileOverwritten ==
  [][(SyncEnd(TRUE) /\ stop # "fetch_failed") =>
       failed_file'[pi].records = failed_tracks]_vars

\* The track at the loop head was really downloaded by the first run into
\* this folder and its file is still there
DownloadedByFirstRun ==
  /\ run = 2
  /\ pc = "loop"
  /\ <<pi, tracks[ti]>> \in succeeded
  /\ build_track_filename(tracks[ti].name, tracks[ti].artists) \in files[pi]

\* C13: a re-run on the same playlist and folder never downloads again a
\* track the first, non-dry-run pass downloaded: when the second pass reaches
\* such a track (no session abort, ceiling not reached) it is skipped,
\* without a backend call and without writing a file.
C13_RerunSkipsSuccesses ==
  [][(/\ DownloadedByFirstRun
      /\ ~throttle.session_aborted
      /\ ~CeilingReached(max_downloads, download_count)) =>
       /\ step'.op = "track" /\ step'.i = ti /\ step'.res = "skipped"
       /\ stats' = [stats EXCEPT !.skipped = @ + 1]
       /\ backendCalls' = backendCalls
       /\ files' = files]_vars

\* C13 witness: the second, non-dry-run pass has just skipped a track that
\* the first pass had downloaded
C13_Witness ==
  /\ run = 2
  /\ ~dry_run
  /\ step.op = "track" /\ step.res = "skipped"
  /\ <<pi, tracks[step.i]>> \in succeeded
  /\ stats.skipped >= 1

\* C14: when the catalog fetch for a playlist raises, sync_playlist returns
\* at once with all-zero statistics, calls no backend, writes no failure
\* file and leaves the ThrottleState and the download counter unchanged; the
\* session then goes on with the next playlist of the mapping.
C14_FetchFailureIsolated ==
  [][/\ (step'.op = "begin" /\ step'.res = "fetch_failed") =>
          /\ stats' = ZeroStats /\ pc' = "post"
          /\ backendCalls' = backendCalls /\ files' = files
          /\ failed_file' = failed_file
          /\ throttle' = throttle /\ download_count' = download_count
     /\ (pc = "post" /\ stop = "fetch_failed") =>
          /\ history' = Append(history, ZeroStats)
          /\ total_stats' = total_stats
          /\ backendCalls' = backendCalls /\ files' = files
          /\ failed_file' = failed_file
          /\ throttle' = throttle /\ download_count' = download_count
          /\ pc' = "main" /\ pi' = pi + 1
     /\ (pc = "main" /\ step.op = "end" /\ step.res = "fetch_failed"
           /\ pi <= Len(to_sync)) =>
          /\ step'.op = "begin"
          /\ catalogFetches' = catalogFetches + 1]_vars

\* C14 witness: the fetch of the first, non-empty playlist failed, nothing
\* was downloaded, and the second playlist has been fetched and is in its loop
C14_Witness ==
  /\ pi = 2 /\ pc = "loop"
  /\ Catalog[to_sync[1]] # <<>>
  /\ history = <<ZeroStats>>
  /\ catalogFetches = 2
  /\ backendCalls = 0 /\ download_count = 0 /\ throttle = ThrottleState
  /\ step.op = "begin" /\ step.res = "fetched"

PlaylistSleeps(sleeps) == SelectSeq(sleeps, LAMBDA x : x.kind = "playlist")

\* C15: the inter-playlist delay of PLAYLIST_DELAY seconds is slept exactly
\* once after each processed playlist that is not the last of the mapping,
\* and never in dry-run mode, after the last playlist, or after a playlist
\* during which session_aborted became true; no other step sleeps it.
C15_InterPlaylistDelay ==
  [][/\ pc = "post" =>
          /\ step'.op = "end"
          /\ step'.sleeps =
               IF ~dry_run /\ pi < Len(to_sync) /\ ~throttle.session_aborted
                 THEN <<Sleep("playlist", PLAYLIST_DELAY)>>
                 ELSE <<>>
     /\ pc # "post" => PlaylistSleeps(step'.sleeps) = <<>>]_vars

\* C15 witness: the first of two playlists downloaded a track and returned,
\* and the inter-playlist delay was slept once
C15_Witness ==
  /\ step.op = "end"
  /\ step.sleeps = <<Sleep("playlist", PLAYLIST_DELAY)>>
  /\ ~dry_run /\ pi = 2 /\ Len(to_sync) = 2
  /\ history[1].downloaded >= 1

Attempted(res) == res \in {"success", "failed"}

\* C16: playlists are processed one at a time in the insertion order of the
\* mapping and tracks in remote order: the k-th catalog fetch is that of the
\* k-th playlist, a playlist is left only by its return, every loop step
\* handles the track at the loop position, that position never moves back,
\* and a position handed to download_track is never handed to it again (the
\* loop moves past it or ends); a step calls the backend at most once and
\* its sleeps belong to it.
C16_SequentialInOrder ==
  [][/\ pi' = IF pc = "post" THEN pi + 1 ELSE pi
     /\ step'.op = "begin" =>
          /\ catalogFetches' = pi
          /\ tracks' \in {Catalog[to_sync[pi]], <<>>}
          /\ ti' = 1
     /\ pc = "loop" =>
          /\ step'.op = "track" /\ step'.i = ti
          /\ tracks' = tracks
          /\ ti' \in {ti, ti + 1}
          /\ ti' = ti => pc' = "post"
          /\ Attempted(step'.res) => (ti' = ti + 1 \/ pc' = "post")
     /\ pc = "post" => step'.op = "end"
     /\ backendCalls' \in {backendCalls, backendCalls + 1}
     /\ backendCalls' = backendCalls + 1 => (pc = "loop" /\ Attempted(step'.res))]_vars

\* C16 witness: in the second playlist the tracks at positions 1 and 2 have
\* been attempted in order and the loop stands at position 3
C16_Witness ==
  /\ pi = 2 /\ Len(history) = 1 /\ catalogFetches = 2
  /\ pc = "loop" /\ ti = 3
  /\ step.op = "track" /\ step.i = 2 /\ Attempted(step.res)
  /\ stats.downloaded + stats.failed = 2
  /\ backendCalls >= 3

PacingSleeps(sleeps) == SelectSeq(sleeps, LAMBDA x : x.kind = "pacing")

\* C18: after a successful attempt in a non-dry-run session exactly one
\* pacing delay of SONG_DELAY_MIN..SONG_DELAY_MAX seconds is slept, as the
\* last sleep of the step, unless the track was the last of its playlist;
\* no pacing delay follows a skipped or failed track or any other step.
C18_PacingAfterSuccess ==
  [][LET p == PacingSleeps(step'.sleeps) IN
     IF /\ step'.op = "track" /\ step'.res = "success"
        /\ ~dry_run /\ step'.i < Len(tracks)
       THEN /\ Len(p) = 1
            /\ p[1].secs \in SONG_DELAY_MIN..SONG_DELAY_MAX
            /\ step'.sleeps[Len(step'.sleeps)] = p[1]
       ELSE p = <<>>]_vars

\* C18 witness: a track that is not the last of its playlist was downloaded
\* and the longest pacing delay was slept, after an earlier track was skipped
C18_Witness ==
  /\ step.op = "track" /\ step.res = "success"
  /\ ~dry_run /\ step.i < Len(tracks)
  /\ step.sleeps = <<Sleep("pacing", SONG_DELAY_MAX)>>
  /\ stats.skipped >= 1

\* Two tracks with the same title and artist names up to letter case
SameUpToCase(t1, t2) ==
  /\ Lower(t1.name) = Lower(t2.name)
  /\ Len(t1.artists) = Len(t2.artists)
  /\ \A k \in 1..Len(t1.artists) : Lower(t1.artists[k]) = Lower(t2.artists[k])

\* C17 as stated: two tracks with the same artist list and the same title up
\* to letter case get the same CanonicalFilename from build_track_filename.
C17_Original ==
  (/\ codec_out # <<>>
   /\ codec_in[1].artists = codec_in[2].artists
   /\ Lower(codec_in[1].name) = Lower(codec_in[2].name)) =>
    codec_out[1].filename = codec_out[2].filename

\* C17 amended: for two tracks whose titles and artist names agree up to
\* letter case, build_track_filename returns filenames that agree up to
\* letter case and have the same NormalizedKey.
C17_SameKeyUpToCase ==
  (codec_out # <<>> /\ SameUpToCase(codec_in[1], codec_in[2])) =>
    /\ Lower(codec_out[1].filename) = Lower(codec_out[2].filename)
    /\ codec_out[1].key = codec_out[2].key

\* C17 witness: the codec was applied to two tracks that differ in letter
\* case only; the filenames differ and the keys are the same non-empty key
C17_Witness ==
  /\ codec_out # <<>>
  /\ SameUpToCase(codec_in[1], codec_in[2])
  /\ codec_in[1].name # codec_in[2].name
  /\ codec_in[1].artists # codec_in[2].artists
  /\ codec_out[1].filename # codec_out[2].filename
  /\ codec_out[1].key = codec_out[2].key
  /\ Len(codec_out[1].key) >= 3

CooldownWindow == CONSECUTIVE_FAIL_THRESHOLD..(CONSECUTIVE_FAIL_ABORT - 1)

\* C19: within one playlist the cooldown of CONSECUTIVE_FAIL_PAUSE seconds is
\* slept after a failed attempt exactly when that failure brings the
\* consecutive-failure counter into [CONSECUTIVE_FAIL_THRESHOLD,
\* CONSECUTIVE_FAIL_ABORT - 1]; a failure bringing it to 1 or 2 causes no
\* cooldown, and the one bringing it to CONSECUTIVE_FAIL_ABORT causes no
\* cooldown but stops the playlist; no other step sleeps the cooldown.
C19_CooldownWindow ==
  [][LET c == CooldownSleeps(step'.sleeps) IN
     IF step'.op = "track" /\ step'.res = "failed"
       THEN /\ consecutive_failures' = consecutive_failures + 1
            /\ consecutive_failures' <= CONSECUTIVE_FAIL_ABORT
            /\ c = IF consecutive_failures' \in CooldownWindow
                     THEN <<Sleep("cooldown", CONSECUTIVE_FAIL_PAUSE)>>
                     ELSE <<>>
            /\ consecutive_failures' = CONSECUTIVE_FAIL_ABORT <=>
                 (pc' = "post" /\ stop' = "breaker")
       ELSE c = <<>>]_vars

\* C19 witness: the ninth failure in a row has just been followed by a
\* cooldown and the loop goes on
C19_Witness ==
  /\ step.op = "track" /\ step.res = "failed"
  /\ consecutive_failures = CONSECUTIVE_FAIL_ABORT - 1
  /\ CooldownSleeps(step.sleeps) = <<Sleep("cooldown", CONSECUTIVE_FAIL_PAUSE)>>
  /\ pc = "loop"

\* C20: the consecutive-failure breaker is local to a playlist and
\* independent of the session throttle: every sync_playlist call starts the
\* counter at 0, so the first failure of a playlist brings it to 1 and
\* causes no cooldown whatever the previous playlist ended with; the step
\* that trips the breaker changes the ThrottleState only if it was itself a
\* rate-limit signal; and after a playlist stopped by the breaker, with
\* session_aborted false, the next playlist of the mapping is started.
C20_BreakerIsPlaylistLocal ==
  [][/\ step'.op = "begin" => consecutive_failures' = 0
     /\ (pc = "loop" /\ stats.failed = 0 /\ step'.res = "failed") =>
          /\ consecutive_failures' = 1
          /\ CooldownSleeps(step'.sleeps) = <<>>
          /\ stop' # "breaker"
     /\ (pc = "loop" /\ stop' = "breaker") =>
          /\ throttle'.count_429 = throttle.count_429 => throttle' = throttle
          /\ throttle'.session_aborted =>
               throttle'.count_429 = throttle.count_429 + 1
     /\ (pc = "main" /\ step.op = "end" /\ step.res = "breaker"
           /\ ~throttle.session_aborted /\ pi <= Len(to_sync)) =>
          /\ step'.op = "begin"
          /\ pi' = pi]_vars

\* C20 witness: the first playlist was stopped by the breaker after
\* CONSECUTIVE_FAIL_ABORT failures, the session is not aborted, and the
\* first failure of the second playlist brought the counter to 1
C20_Witness ==
  /\ pi = 2
  /\ history[1].failed = CONSECUTIVE_FAIL_ABORT
  /\ ~throttle.session_aborted
  /\ step.op = "track" /\ step.res = "failed"
  /\ consecutive_failures = 1
  /\ stats.failed = 1

\* The backend call of a step raised a DownloadError classified as a
\* rate-limit signal
RateLimited(s) ==
  /\ s.op = "track"
  /\ s.backend.kind = "DownloadError"
  /\ is_throttle_error(s.backend.msg)

\* C21: in every reachable state of a session 0 <= count_429 <= 3 and
\* session_aborted is true exactly when count_429 = 3; count_429 never
\* decreases, it grows by one exactly in the steps whose attempt is
\* classified as a rate-limit signal, so at most three attempts of a session
\* are so classified.
C21_ThrottleCountBounded ==
  /\ [](/\ throttle.count_429 \in 0..3
        /\ throttle.session_aborted <=> throttle.count_429 = 3)
  /\ [][/\ throttle'.count_429 \in {throttle.count_429, throttle.count_429 + 1}
        /\ throttle'.count_429 = throttle.count_429 + 1 <=>
             (pc = "loop" /\ RateLimited(step'))]_vars

\* C21 witness: three attempts spread over two playlists were rate-limit
\* signals, the third set session_aborted
C21_Witness ==
  /\ throttle.count_429 = 3 /\ throttle.session_aborted
  /\ pi = 2 /\ Len(history) = 1
  /\ history[1].failed >= 1
  /\ RateLimited(step)
  /\ stats.failed \in 1..2

\* The counter a loop step adds one to, or "none"
CounterOf(res) ==
  CASE res = "skipped" -> "skipped"
    [] res = "success" -> "downloaded"
    [] res = "failed" -> "failed"
    [] OTHER -> "none"

\* stats after one more track was counted under counter k
CountedUnder(st, k) ==
  IF k = "none" THEN st ELSE [st EXCEPT ![k] = @ + 1]

\* C22: at every point of sync_playlist and in the returned stats
\* downloaded + skipped + failed <= total, and failed is the number of
\* FailedTrackRecords collected; each loop step adds one to exactly the
\* counter of its outcome and nothing to the others (a break adds nothing),
\* so while the loop runs the three counters sum to the positions passed;
\* on return the sum equals total unless the loop was cut short by session
\* abort, the ceiling or the 10-failure breaker.
C22_StatsAccounting ==
  /\ [](/\ Counted(stats) <= stats.total
        /\ stats.failed = Len(failed_tracks)
        /\ pc = "loop" => Counted(stats) = ti - 1
        /\ (pc = "post" /\ stop \notin {"aborted", "ceiling", "breaker"}) =>
             Counted(stats) = stats.total
        /\ \A k \in 1..Len(history) : Counted(history[k]) <= history[k].total)
  /\ [][/\ pc = "loop" =>
             /\ stats' = CountedUnder(stats, CounterOf(step'.res))
             /\ CounterOf(step'.res) = "none" <=>
                  step'.res \in {"break_aborted", "break_ceiling"}
        /\ pc = "post" => history' = Append(history, stats)]_vars

\* C22 witness: a playlist of three tracks ran to its end with one track
\* skipped, one downloaded and one failed
C22_Witness ==
  /\ pc = "post" /\ stop = "exhausted"
  /\ stats.skipped = 1 /\ stats.downloaded = 1 /\ stats.failed = 1
  /\ stats.total = 3
  /\ Len(failed_tracks) = 1

\* C23: a dedup skip leaves the consecutive-failure counter unchanged; within
\* the track loop only a successful attempt resets it to 0 and only a failed
\* attempt increments it, so failures separated only by skipped tracks form
\* one streak toward the pause and abort thresholds.
C23_SkipKeepsStreak ==
  [][pc = "loop" =>
       consecutive_failures' =
         CASE step'.res = "success" -> 0
           [] step'.res = "failed" -> consecutive_failures + 1
           [] OTHER -> consecutive_failures]_vars

\* C23 witness: a failure, a skipped track and two more failures; the third
\* failure reached CONSECUTIVE_FAIL_THRESHOLD and was followed by the cooldown
C23_Witness ==
  /\ pc = "loop" /\ ti = 5
  /\ stats.skipped = 1 /\ stats.failed = 3 /\ stats.downloaded = 0
  /\ NormalizedKey(tracks[2]) \in existing
  /\ consecutive_failures = CONSECUTIVE_FAIL_THRESHOLD
  /\ step.res = "failed"
  /\ CooldownSleeps(step.sleeps) = <<Sleep("cooldown", CONSECUTIVE_FAIL_PAUSE)>>

====
